---- MODULE Spec2Model ----
(***************************************************************************)
(* Model of autopsi: the state-vector simulator (autopsi/simulator.py,     *)
(* class Tensor) and the gate library (autopsi/gates.py).                  *)
(*                                                                         *)
(* Numbers.  A complex number is a pair <<re, im>> of integers.  An array  *)
(* is a record [dims, data, k]: dims is the numpy shape, data the entries  *)
(* in row-major order, and the array's value is data / sqrt(2)^k, so that  *)
(* the Hadamard matrix (entries +-1/sqrt(2)) is carried exactly.  Arrays   *)
(* are kept in lowest terms (Reduce), so equal values are equal records.   *)
(***************************************************************************)
EXTENDS Integers, Sequences, FiniteSets, TLC

VARIABLES
    trace,      \* self.trace, set by the constructor
    device,     \* self.device, set by the constructor
    state,      \* self.state, the amplitude vector
    history,    \* the list self.history
    last,       \* the last call made: operation, arguments, outcome, engine before it
    stepCalls,  \* number of step calls made (batch: one per element stepped)
    gateCalls,  \* number of those step calls that were given a tensor (not None)
    applied,    \* the tensors of the step calls that returned normally, in order
    s0          \* the state the constructor built

vars == <<trace, device, state, history, last, stepCalls, gateCalls, applied, s0>>

\* Most step calls in one behaviour.
MaxSteps == 3

None == "None"
NoError == "no error"

-----------------------------------------------------------------------------
(* Complex arithmetic on pairs <<re, im>>. *)

CAdd(a, b) == <<a[1] + b[1], a[2] + b[2]>>
CMul(a, b) == <<a[1] * b[1] - a[2] * b[2], a[1] * b[2] + a[2] * b[1]>>
CZero == <<0, 0>>

RECURSIVE Pow2(_)
Pow2(n) == IF n = 0 THEN 1 ELSE 2 * Pow2(n - 1)

AllZero(data) == \A i \in 1..Len(data) : data[i] = CZero
AllEven(data) == \A i \in 1..Len(data) : data[i][1] % 2 = 0 /\ data[i][2] % 2 = 0
Halved(data) == [i \in 1..Len(data) |-> <<data[i][1] \div 2, data[i][2] \div 2>>]

\* Lowest terms of data / sqrt(2)^k: 2 = sqrt(2)^2 is cancelled while it divides.
RECURSIVE Reduce(_, _, _)
Reduce(dims, data, k) ==
    IF AllZero(data) THEN [dims |-> dims, data |-> data, k |-> 0]
    ELSE IF k >= 2 /\ AllEven(data) THEN Reduce(dims, Halved(data), k - 2)
    ELSE [dims |-> dims, data |-> data, k |-> k]

\* backend.array(list): a one-dimensional array of exact integers/complexes.
Vec(data) == Reduce(<<Len(data)>>, data, 0)
\* A two-dimensional array of n rows and m columns.
Mat(n, m, data, k) == Reduce(<<n, m>>, data, k)

RECURSIVE SumTo(_, _)
\* Sum of f[1..n], f a sequence of complex numbers.
SumTo(f, n) == IF n = 0 THEN CZero ELSE CAdd(SumTo(f, n - 1), f[n])

-----------------------------------------------------------------------------
(* The numeric backend (numpy) as the simulator uses it. *)

\* An absent argument (Python None) where a tensor or a list of tensors is expected.
NoTensor == [none |-> TRUE]
IsNone(t) == "none" \in DOMAIN t

Entry(b, i, j) == b.data[(i - 1) * b.dims[2] + j]

\* A product that leaves the last row of b out of every sum.
MatmulSkipsLastRow(a, b) ==
    IF Len(a.dims) # 1 \/ Len(b.dims) = 0 \/ a.dims[1] # b.dims[1]
    THEN [raised |-> "ValueError", value |-> a]
    ELSE IF Len(b.dims) = 1
    THEN [raised |-> NoError,
          value |-> Reduce(<<>>,
                           <<SumTo([i \in 1..a.dims[1] |-> CMul(a.data[i], b.data[i])],
                                   a.dims[1] - 1)>>,
                           a.k + b.k)]
    ELSE [raised |-> NoError,
          value |-> Reduce(<<b.dims[2]>>,
                           [j \in 1..b.dims[2] |->
                               SumTo([i \in 1..a.dims[1] |-> CMul(a.data[i], Entry(b, i, j))],
                                     a.dims[1] - 1)],
                           a.k + b.k)]

\* backend.matmul(a, b) for a of at most one dimension and b of at most two.
\* numpy refuses scalar operands and operands whose inner dimensions differ.
Matmul(a, b) ==
    IF Len(a.dims) # 1 \/ Len(b.dims) = 0 \/ a.dims[1] # b.dims[1]
    THEN [raised |-> "ValueError", value |-> a]
    ELSE IF Len(b.dims) = 1
    THEN [raised |-> NoError,
          value |-> Reduce(<<>>,
                           <<SumTo([i \in 1..a.dims[1] |-> CMul(a.data[i], b.data[i])],
                                   a.dims[1])>>,
                           a.k + b.k)]
    ELSE [raised |-> NoError,
          value |-> Reduce(<<b.dims[2]>>,
                           [j \in 1..b.dims[2] |->
                               SumTo([i \in 1..a.dims[1] |-> CMul(a.data[i], Entry(b, i, j))],
                                     a.dims[1])],
                           a.k + b.k)]

\* array ** 2: every entry multiplied by itself.
Square(a) == Reduce(a.dims, [i \in 1..Len(a.data) |-> CMul(a.data[i], a.data[i])], 2 * a.k)

\* bin(n)[2:], what numpy.binary_repr(n) gives for n >= 0 when no width is passed.
RECURSIVE binary_repr(_)
binary_repr(n) ==
    IF n = 0 THEN "0"
    ELSE IF n = 1 THEN "1"
    ELSE binary_repr(n \div 2) \o (IF n % 2 = 0 THEN "0" ELSE "1")

-----------------------------------------------------------------------------
(* class Tensor.  self is the record [trace, device, state, history]. *)

Self == [trace |-> trace, device |-> device, state |-> state, history |-> history]

\* The names Tensor.__init__ binds on the instance; an instance attribute
\* hides the method of the same name.
InstanceAttributes == {"backend", "dtype", "device", "trace", "history", "state"}

\* Tensor.__init__: the state built from entrypoint (None gives [1, 0]).
InitialState(entrypoint) ==
    IF IsNone(entrypoint) THEN Vec(<<<<1, 0>>, <<0, 0>>>>) ELSE Vec(entrypoint.list)

\* A step that records the state before it looks whether a tensor was given.
StepOpRecordsFirst(self, tensor) ==
    LET hist == IF self.trace = TRUE
                THEN Append(self.history, self.state)
                ELSE self.history
    IN  IF IsNone(tensor)
        THEN [state |-> self.state, history |-> hist, raised |-> NoError]
        ELSE LET prod == Matmul(self.state, tensor)
             IN  [state   |-> IF prod.raised = NoError THEN prod.value ELSE self.state,
                  history |-> hist,
                  raised  |-> prod.raised]

\* Tensor.step.  The outcome is the engine after the call and the error raised, if any.
StepOp(self, tensor) ==
    IF IsNone(tensor)
    THEN [state |-> self.state, history |-> self.history, raised |-> NoError]
    ELSE LET hist == IF self.trace = TRUE
                     THEN Append(self.history, self.state)
                     ELSE self.history
             prod == IF self.device = None
                     THEN Matmul(self.state, tensor)
                     ELSE Matmul(self.state, tensor)   \* inside tf.device(self.device)
         IN  [state   |-> IF prod.raised = NoError THEN prod.value ELSE self.state,
              history |-> hist,
              raised  |-> prod.raised]

\* The loop of Tensor.batch from element i on: an error raised by a step ends it.
RECURSIVE BatchFrom(_, _, _)
BatchFrom(self, seq, i) ==
    IF i > Len(seq)
    THEN [state |-> self.state, history |-> self.history, raised |-> NoError]
    ELSE LET r == StepOp(self, seq[i])
         IN  IF r.raised # NoError THEN r
             ELSE BatchFrom([self EXCEPT !.state = r.state, !.history = r.history], seq, i + 1)

\* A batch that walks its tensors from the last to the first.
BatchOpReversed(self, tensors) ==
    IF IsNone(tensors)
    THEN [state |-> self.state, history |-> self.history, raised |-> NoError]
    ELSE BatchFrom(self, [i \in 1..Len(tensors.seq) |-> tensors.seq[Len(tensors.seq) + 1 - i]], 1)

\* Tensor.batch.
BatchOp(self, tensors) ==
    IF IsNone(tensors)
    THEN [state |-> self.state, history |-> self.history, raised |-> NoError]
    ELSE BatchFrom(self, tensors.seq, 1)

\* Tensor.amplitudes.
AmplitudesOp(self) == self.state

\* Tensor.probabilities.
ProbabilitiesOp(self) == Square(self.state)

\* Tensor.history, called as engine.history().
HistoryOp(self) ==
    IF "history" \in InstanceAttributes
    THEN [raised |-> "TypeError", kind |-> "none", val |-> <<>>]   \* a list is not callable
    ELSE IF self.history # <<>>
    THEN [raised |-> NoError, kind |-> "list", val |-> self.history]
    ELSE [raised |-> NoError, kind |-> "none", val |-> <<>>]

\* numpy's cast of one entry: float keeps the real part only.
Cast(x, dtype) == IF dtype = "float" THEN <<x[1], 0>> ELSE x

\* Tensor.astype.  Iterating a 0-dimensional array raises TypeError.
AstypeOp(self, dtype, value) ==
    LET array_to_copy == IF value = "amplitudes" THEN AmplitudesOp(self)
                         ELSE ProbabilitiesOp(self)
    IN  IF Len(array_to_copy.dims) = 0
        THEN [raised |-> "TypeError", value |-> array_to_copy]
        ELSE [raised |-> NoError,
              value  |-> Reduce(array_to_copy.dims,
                                [i \in 1..Len(array_to_copy.data) |->
                                    Cast(array_to_copy.data[i], dtype)],
                                array_to_copy.k)]

\* Tensor.count_qubits: backend.divide(number of probabilities, 2).  The
\* quotient is given as the pair <<numerator, denominator>>.
CountQubitsOp(self) ==
    IF Len(ProbabilitiesOp(self).dims) = 0
    THEN [raised |-> "TypeError", value |-> <<0, 2>>]
    ELSE [raised |-> NoError, value |-> <<Len(ProbabilitiesOp(self).data), 2>>]

\* backend.random.choice(range(len(p)), p=p): the indices it can return, or
\* the error it raises when p is not a probability vector.
RealSum(p) == SumTo(p.data, Len(p.data))[1]
ChoiceOp(p) ==
    IF \E i \in 1..Len(p.data) : p.data[i][1] < 0
    THEN [raised |-> "ValueError", indices |-> {}]      \* probabilities are not non-negative
    ELSE IF ~(p.k % 2 = 0 /\ RealSum(p) = Pow2(p.k \div 2))
    THEN [raised |-> "ValueError", indices |-> {}]      \* probabilities do not sum to 1
    ELSE [raised |-> NoError,
          indices |-> {i - 1 : i \in {j \in 1..Len(p.data) : p.data[j][1] > 0}}]

\* Tensor.measure, given the index the weighted draw returned.
\* return_as_type and num_qubits are not used for the value returned.
MeasureOp(self, return_as_type, drawn) ==
    LET num_qubits == CountQubitsOp(self)
        probabilities_as_float == AstypeOp(self, "float", "probabilities")
        choice == ChoiceOp(probabilities_as_float.value)
    IN  IF num_qubits.raised # NoError
        THEN [raised |-> num_qubits.raised, kind |-> "none", val |-> ""]
        ELSE IF choice.raised # NoError
        THEN [raised |-> choice.raised, kind |-> "none", val |-> ""]
        ELSE [raised |-> NoError, kind |-> "str", val |-> binary_repr(drawn)]

\* The indices the draw of measure can return in the current state.
Drawable(self) ==
    IF Len(self.state.dims) = 0 THEN {}
    ELSE ChoiceOp(AstypeOp(self, "float", "probabilities").value).indices

-----------------------------------------------------------------------------
(* autopsi/gates.py.  Gate parameters are None or an exactly representable   *)
(* real; the only angle whose sine and cosine are exact in floating point   *)
(* is 0.                                                                    *)

NoParam == [none |-> TRUE]
Real(x) == [v |-> x]
ParamInputs == {NoParam, Real(0)}

Cos(x) == CASE x = 0 -> 1
Sin(x) == CASE x = 0 -> 0
\* e ** (i * x)
ExpI(x) == <<Cos(x), Sin(x)>>

\* The names bound at the top level of the module gates, and in the body of class u1.
ModuleNamespace == {"__GateTensor__", "h", "ry", "u1"}
U1Namespace == {"tensor", "u2"}

\* h.tensor: divide(array([1, 1, 1, -1]), sqrt(2)).reshape(2, 2)
HTensor == [raised |-> NoError,
            tensor |-> Mat(2, 2, <<<<1, 0>>, <<1, 0>>, <<1, 0>>, <<-1, 0>>>>, 1)]

\* ry.tensor: array([cos(a/2), -sin(a/2), sin(a/2), cos(a/2)]), not reshaped.
\* divide(None, 2) raises TypeError.
RyTensor(angle) ==
    IF IsNone(angle) THEN [raised |-> "TypeError", tensor |-> NoTensor]
    ELSE [raised |-> NoError,
          tensor |-> Vec(<<<<Cos(angle.v \div 2), 0>>, <<-Sin(angle.v \div 2), 0>>,
                           <<Sin(angle.v \div 2), 0>>, <<Cos(angle.v \div 2), 0>>>>)]

\* u1.tensor: array([1., 0., 0., e ** (i * lmda)]), not reshaped.
\* multiply(1j, None) raises TypeError.
U1Tensor(lmda) ==
    IF IsNone(lmda) THEN [raised |-> "TypeError", tensor |-> NoTensor]
    ELSE [raised |-> NoError,
          tensor |-> Vec(<<<<1, 0>>, <<0, 0>>, <<0, 0>>, ExpI(lmda.v)>>)]

\* u1.u2.tensor: exp(e, z) hands z to numpy.exp as its output array; a
\* complex scalar is not an array, so the call raises TypeError (and so
\* does multiply(i, None) before it).
U2Tensor(phi, lmda) == [raised |-> "TypeError", tensor |-> NoTensor]

GateNames == {"h", "ry", "u1", "u2", "u1.u2"}

\* gates.<name>(angle=.., lmda=.., phi=..).tensor() as a caller evaluates it.
GateRequest(name, angle, lmda, phi) ==
    IF name = "u1.u2"
    THEN IF "u1" \in ModuleNamespace /\ "u2" \in U1Namespace
         THEN U2Tensor(phi, lmda)
         ELSE [raised |-> "AttributeError", tensor |-> NoTensor]
    ELSE IF name \notin ModuleNamespace
    THEN [raised |-> "AttributeError", tensor |-> NoTensor]
    ELSE CASE name = "h"  -> HTensor
           [] name = "ry" -> RyTensor(angle)
           [] name = "u1" -> U1Tensor(lmda)

\* The tensors the library hands out (for the parameters above).
LibraryTensors ==
    {GateRequest(n, p, p, p).tensor : n \in GateNames, p \in ParamInputs} \ {NoTensor}

-----------------------------------------------------------------------------
(* Inputs. *)

\* Pauli Y, [[0, -i], [i, 0]].
PauliY == Mat(2, 2, <<<<0, 0>>, <<0, -1>>, <<0, 1>>, <<0, 0>>>>, 0)
\* [[1, 1], [1, -1]], a matrix that is not unitary.
NotUnitary == Mat(2, 2, <<<<1, 0>>, <<1, 0>>, <<1, 0>>, <<-1, 0>>>>, 0)
\* The permutation matrix of X on the low qubit of two: swaps 0<->1 and 2<->3.
PermIX == Mat(4, 4, <<<<0, 0>>, <<1, 0>>, <<0, 0>>, <<0, 0>>,
                      <<1, 0>>, <<0, 0>>, <<0, 0>>, <<0, 0>>,
                      <<0, 0>>, <<0, 0>>, <<0, 0>>, <<1, 0>>,
                      <<0, 0>>, <<0, 0>>, <<1, 0>>, <<0, 0>>>>, 0)

\* Unitary matrices whose entries floating point holds exactly.
ExactUnitary == {PauliY, PermIX}

TensorInputs == {NoTensor, PauliY, NotUnitary, PermIX} \cup LibraryTensors
BatchTensors == {NoTensor, PauliY, PermIX, HTensor.tensor}

RECURSIVE SeqsUpTo(_, _)
SeqsUpTo(S, n) ==
    IF n = 0 THEN {<<>>}
    ELSE LET shorter == SeqsUpTo(S, n - 1)
         IN  shorter \cup {Append(q, x) : q \in {r \in shorter : Len(r) = n - 1}, x \in S}

BatchInputs == {NoTensor} \cup {[seq |-> q] : q \in SeqsUpTo(BatchTensors, MaxSteps)}

Entrypoints == {NoTensor,
                [list |-> <<<<1, 0>>, <<1, 0>>>>],
                [list |-> <<<<1, 0>>, <<0, 0>>, <<0, 0>>, <<0, 0>>>>]}
Devices == {None, "/CPU:0"}

-----------------------------------------------------------------------------
(* The state machine: one action per call a user of the package can make. *)

NoResult == [kind |-> "none", val |-> <<>>]
Pre == [state |-> state, history |-> history]
Call(op, args, raised, result) ==
    [op |-> op, args |-> args, raised |-> raised, result |-> result, pre |-> Pre]

\* Tensor(entrypoint=.., trace=.., device=..)
Init ==
    \E entrypoint \in Entrypoints :
        /\ trace \in BOOLEAN
        /\ device \in Devices
        /\ state = InitialState(entrypoint)
        /\ s0 = InitialState(entrypoint)
        /\ history = <<>>
        /\ last = [op |-> "init", args |-> [entrypoint |-> entrypoint], raised |-> NoError,
                   result |-> NoResult,
                   pre |-> [state |-> InitialState(entrypoint), history |-> <<>>]]
        /\ stepCalls = 0
        /\ gateCalls = 0
        /\ applied = <<>>

\* engine.step(tensor)
Step(tensor) ==
    /\ stepCalls < MaxSteps
    /\ LET r == StepOp(Self, tensor)
       IN  /\ state' = r.state
           /\ history' = r.history
           /\ last' = Call("step", [tensor |-> tensor], r.raised, NoResult)
           /\ applied' = IF IsNone(tensor) \/ r.raised # NoError THEN applied
                         ELSE Append(applied, tensor)
    /\ stepCalls' = stepCalls + 1
    /\ gateCalls' = gateCalls + (IF IsNone(tensor) THEN 0 ELSE 1)
    /\ UNCHANGED <<trace, device, s0>>

\* The step calls a batch makes from element i on: the tensor of each and what it raised.
RECURSIVE BatchTrail(_, _, _)
BatchTrail(self, seq, i) ==
    IF i > Len(seq) THEN <<>>
    ELSE LET r == StepOp(self, seq[i])
         IN  <<[tensor |-> seq[i], raised |-> r.raised]>> \o
             (IF r.raised # NoError THEN <<>>
              ELSE BatchTrail([self EXCEPT !.state = r.state, !.history = r.history],
                              seq, i + 1))

GivenTensor(c) == ~IsNone(c.tensor)
Multiplied(c) == ~IsNone(c.tensor) /\ c.raised = NoError

\* engine.batch(tensors)
Batch(tensors) ==
    /\ IF IsNone(tensors) THEN TRUE ELSE stepCalls + Len(tensors.seq) <= MaxSteps
    /\ LET r == BatchOp(Self, tensors)
           trail == IF IsNone(tensors) THEN <<>> ELSE BatchTrail(Self, tensors.seq, 1)
           done == SelectSeq(trail, Multiplied)
       IN  /\ state' = r.state
           /\ history' = r.history
           /\ last' = Call("batch", [tensors |-> tensors], r.raised, NoResult)
           /\ stepCalls' = stepCalls + Len(trail)
           /\ gateCalls' = gateCalls + Len(SelectSeq(trail, GivenTensor))
           /\ applied' = applied \o [i \in 1..Len(done) |-> done[i].tensor]
    /\ UNCHANGED <<trace, device, s0>>

Ghosts == <<stepCalls, gateCalls, applied, s0>>

\* engine.amplitudes()
Amplitudes ==
    /\ last' = Call("amplitudes", <<>>, NoError, [kind |-> "array", val |-> AmplitudesOp(Self)])
    /\ UNCHANGED <<trace, device, state, history, Ghosts>>

\* engine.probabilities()
Probabilities ==
    /\ last' = Call("probabilities", <<>>, NoError,
                    [kind |-> "array", val |-> ProbabilitiesOp(Self)])
    /\ UNCHANGED <<trace, device, state, history, Ghosts>>

\* engine.astype(dtype, value)
Astype(dtype, value) ==
    /\ LET r == AstypeOp(Self, dtype, value)
       IN  last' = Call("astype", [dtype |-> dtype, value |-> value], r.raised,
                        [kind |-> "array", val |-> r.value])
    /\ UNCHANGED <<trace, device, state, history, Ghosts>>

\* engine.count_qubits()
CountQubits ==
    /\ LET r == CountQubitsOp(Self)
       IN  last' = Call("count_qubits", <<>>, r.raised, [kind |-> "ratio", val |-> r.value])
    /\ UNCHANGED <<trace, device, state, history, Ghosts>>

\* A measurement that leaves the engine in the basis state it drew.
MeasureCollapsing(return_as_type) ==
    /\ \E drawn \in (IF Drawable(Self) = {} THEN {0} ELSE Drawable(Self)) :
          LET r == MeasureOp(Self, return_as_type, drawn)
          IN  /\ last' = Call("measure", [return_as_type |-> return_as_type, drawn |-> drawn],
                              r.raised, [kind |-> r.kind, val |-> r.val])
              /\ state' = IF r.raised # NoError THEN state
                          ELSE Vec([i \in 1..Len(state.data) |->
                                       IF i = drawn + 1 THEN <<1, 0>> ELSE <<0, 0>>])
    /\ UNCHANGED <<trace, device, history, Ghosts>>

\* engine.measure(return_as_type); the draw is any index of non-zero probability.
Measure(return_as_type) ==
    /\ \E drawn \in (IF Drawable(Self) = {} THEN {0} ELSE Drawable(Self)) :
          LET r == MeasureOp(Self, return_as_type, drawn)
          IN  last' = Call("measure", [return_as_type |-> return_as_type, drawn |-> drawn],
                           r.raised, [kind |-> r.kind, val |-> r.val])
    /\ UNCHANGED <<trace, device, state, history, Ghosts>>

\* engine.history()
History ==
    /\ LET r == HistoryOp(Self)
       IN  last' = Call("history", <<>>, r.raised, [kind |-> r.kind, val |-> r.val])
    /\ UNCHANGED <<trace, device, state, history, Ghosts>>

\* gates.<name>(angle=p, lmda=p, phi=p).tensor()
RequestGate(name, p) ==
    /\ LET r == GateRequest(name, p, p, p)
       IN  last' = Call("tensor", [name |-> name, p |-> p], r.raised,
                        [kind |-> "array", val |-> r.tensor])
    /\ UNCHANGED <<trace, device, state, history, Ghosts>>

Next ==
    \/ \E tensor \in TensorInputs : Step(tensor)
    \/ \E tensors \in BatchInputs : Batch(tensors)
    \/ Amplitudes
    \/ Probabilities
    \/ \E dtype \in {"float", "complex"}, value \in {"amplitudes", "probabilities"} :
          Astype(dtype, value)
    \/ CountQubits
    \/ \E return_as_type \in {"int", "str"} : Measure(return_as_type)
    \/ History
    \/ \E name \in GateNames, p \in ParamInputs : RequestGate(name, p)

Spec == Init /\ [][Next]_vars

-----------------------------------------------------------------------------
(* Properties. *)

PreSelf == [trace |-> trace, device |-> device,
            state |-> last.pre.state, history |-> last.pre.history]

\* |a|^2 of every entry of an array.
AbsSquare(a) ==
    Reduce(a.dims,
           [i \in 1..Len(a.data) |->
               <<a.data[i][1] * a.data[i][1] + a.data[i][2] * a.data[i][2], 0>>],
           2 * a.k)

\* The squared magnitudes of the array sum to 1.
Normalized(a) == RealSum(AbsSquare(a)) = Pow2(AbsSquare(a).k \div 2) /\ AbsSquare(a).k % 2 = 0

\* C1: history() never raises; it returns the whole log when the log is not
\* empty and the empty signal (None) when it is.
C1_HistoryNeverRaises ==
    last.op = "history" =>
        /\ last.raised = NoError
        /\ IF history # <<>>
           THEN last.result.kind = "list" /\ last.result.val = history
           ELSE last.result.kind = "none"

\* C2: probabilities() is the elementwise squared magnitude |a|^2 of amplitudes().
C2_ProbabilitiesAreSquaredMagnitudes ==
    last.op = "probabilities" =>
        /\ last.raised = NoError
        /\ last.result.val = AbsSquare(AmplitudesOp(Self))

\* The tensor's first dimension is not the length of the state vector.
Mismatched(st, tensor) ==
    /\ ~IsNone(tensor)
    /\ Len(st.dims) = 1
    /\ Len(tensor.dims) >= 1
    /\ tensor.dims[1] # st.dims[1]

\* C3: a step whose gate matrix does not fit the state vector is rejected and
\* leaves the amplitude vector and the history log as they were.
C3_RejectedStepLeavesEngine ==
    (last.op = "step" /\ Mismatched(last.pre.state, last.args.tensor)) =>
        /\ last.raised # NoError
        /\ state = last.pre.state
        /\ history = last.pre.history

\* C4 as stated: the log has one entry per step call made while tracing was
\* enabled, and none when tracing was disabled.
C4_HistoryLengthIsStepCalls ==
    Len(history) = IF trace THEN stepCalls ELSE 0

\* C4, amended: the log has one entry per step call that was given a tensor
\* (a step given None records nothing), and none when tracing was disabled.
C4_HistoryLengthIsTensorSteps ==
    Len(history) = IF trace THEN gateCalls ELSE 0

C4_Witness ==
    /\ trace
    /\ last.op = "batch"
    /\ stepCalls = 3
    /\ gateCalls = 2
    /\ Len(history) = 2

\* step(t) made on the outcome r of the calls before it; an error raised
\* earlier has ended the sequence of calls.
Then(r, self, tensor) ==
    IF r.raised # NoError THEN r
    ELSE StepOp([self EXCEPT !.state = r.state, !.history = r.history], tensor)

\* step(seq[1]) followed by step(seq[2]) ... followed by step(seq[n]).
RECURSIVE StepsInTurn(_, _)
StepsInTurn(self, seq) ==
    IF seq = <<>>
    THEN [state |-> self.state, history |-> self.history, raised |-> NoError]
    ELSE Then(StepsInTurn(self, SubSeq(seq, 1, Len(seq) - 1)), self, seq[Len(seq)])

\* C5: batch(tensors) leaves the engine as the step calls on its tensors, made
\* one after the other in the given order, leave it.
C5_BatchIsStepsInTurn ==
    (last.op = "batch" /\ ~IsNone(last.args.tensors)) =>
        [state |-> state, history |-> history, raised |-> last.raised]
            = StepsInTurn(PreSelf, last.args.tensors.seq)

C5_Witness ==
    /\ last.op = "batch"
    /\ ~IsNone(last.args.tensors)
    /\ last.args.tensors.seq = <<PauliY, HTensor.tensor>>
    /\ last.raised = NoError
    /\ Len(history) = Len(last.pre.history) + 2
    /\ state # last.pre.state

RECURSIVE Log2(_)
Log2(n) == IF n <= 1 THEN 0 ELSE 1 + Log2(n \div 2)

RECURSIVE ZeroPadded(_, _)
ZeroPadded(str, width) == IF Len(str) >= width THEN str ELSE ZeroPadded("0" \o str, width)

\* C6: measure() returns the drawn index as an integer when return_as_type is
\* int, and as a binary string of width log2(len(state)) when it is str.
C6_MeasureRepresentation ==
    (last.op = "measure" /\ last.raised = NoError) =>
        /\ last.args.drawn \in 0..(Len(state.data) - 1)
        /\ IF last.args.return_as_type = "int"
           THEN last.result.kind = "int" /\ last.result.val = last.args.drawn
           ELSE /\ last.result.kind = "str"
                /\ last.result.val
                     = ZeroPadded(binary_repr(last.args.drawn), Log2(Len(state.data)))

ReadOps == {"measure", "amplitudes", "probabilities", "astype"}

\* C7: measure, amplitudes, probabilities and astype leave the amplitude
\* vector and the history log unchanged.
C7_ReadsLeaveEngine ==
    last.op \in ReadOps => state = last.pre.state /\ history = last.pre.history

C7_Witness ==
    /\ last.op = "measure"
    /\ last.raised = NoError
    /\ last.args.drawn = 1
    /\ Cardinality(Drawable(Self)) = 2
    /\ history # <<>>

\* C8: from a normalized initial state, after steps with unitary matrices
\* only, the squared magnitudes of the amplitudes sum to 1.
C8_NormPreserved ==
    (Normalized(s0) /\ \A i \in 1..Len(applied) : applied[i] \in ExactUnitary) =>
        Normalized(state)

C8_Witness ==
    /\ Normalized(s0)
    /\ Len(applied) = 3
    /\ \A i \in 1..Len(applied) : applied[i] \in ExactUnitary
    /\ \E i \in 1..Len(state.data) : state.data[i][2] # 0

\* s0 x G1 x ... x Gn
RECURSIVE Product(_, _)
Product(st, gates) ==
    IF gates = <<>> THEN st
    ELSE Matmul(Product(st, SubSeq(gates, 1, Len(gates) - 1)), gates[Len(gates)]).value

\* C9: with tracing on, after the gates G1..Gk have been applied from s0 the
\* state is s0 x G1 x ... x Gk and the log is [s0, s0 x G1, ..., s0 x G1..G(k-1)].
C9_LogIsStatesBeforeEachGate ==
    trace =>
        /\ state = Product(s0, applied)
        /\ history = [i \in 1..Len(applied) |-> Product(s0, SubSeq(applied, 1, i - 1))]

PublicGates == {"h", "ry", "u1", "u2"}

\* C10: each of h, ry, u1, u2 can be requested from the module gates (with
\* its parameters given), its tensor() is a 2x2 matrix, and step accepts
\* that tensor on a state of length 2 and yields a state of length 2.
C10_GateThenStep ==
    /\ (last.op = "tensor" /\ last.args.name \in PublicGates /\ ~IsNone(last.args.p)) =>
           last.raised = NoError /\ last.result.val.dims = <<2, 2>>
    /\ (last.op = "step" /\ last.args.tensor \in LibraryTensors
            /\ last.pre.state.dims = <<2>>) =>
           last.raised = NoError /\ state.dims = <<2>>

====
